---- MODULE Spec2Model ----
(***************************************************************************)
(* The MindV voice client: the inbound-message handler (onmessage) of the  *)
(* live session with its playback scheduler and transcript accumulator,    *)
(* the 'ended' listeners of the scheduled AudioBufferSourceNodes, the      *)
(* output device clock, and the session lifecycle (startConversation,      *)
(* stopConversation).                                                      *)
(*                                                                         *)
(* The repository holds four versions of the App component:                *)
(*   "App"  src/App.tsx                                                    *)
(*   "P0a"  src/unnamed/part_000, lines 1-708                              *)
(*   "P0b"  src/unnamed/part_000, lines 710-1083                           *)
(*   "P1"   src/unnamed/part_001                                           *)
(* The variable `variant` fixes which one runs.                            *)
(*                                                                         *)
(* Time is counted in sample periods of the 24 kHz output context, so a    *)
(* clip of n samples lasts n units.                                        *)
(***************************************************************************)
EXTENDS Integers, Sequences, FiniteSets, TLC

\* ---- bounds ----
MaxMsgs == 3        \* inbound messages delivered in one behaviour

\* The values of the output device clock.
Clock == 0..2

Variants == {"App", "P0a", "P0b", "P1"}

\* P0a and P1 have the scheduler code of App (part_000:418-440 and
\* part_001:391-413 are App.tsx:138-160 with other names); P0b differs in
\* line 870.
SchedulerVariants == {"App", "P0b"}

VARIABLES
    variant,        \* which version of the component runs
    currentTime,    \* outputCtx.currentTime
    nextStartTime,  \* nextStartTimeRef.current
    sourcesRef,     \* sourcesRef.current: ids of the sources in the active set
    isAISpeaking,   \* React state isAISpeaking
    pending,        \* onmessage handlers suspended at an await
    nmsgs,          \* messages delivered so far; a message's id is its arrival rank
    clips,          \* history: the calls of source.start, in call order
    stopped,        \* ids of the sources on which stop() was called
    endedFired,     \* ids of the sources whose 'ended' event was dispatched
    epoch,          \* history: number of interrupted blocks executed
    endedSignals,   \* history: calls of setIsAISpeaking(false)
    transitions,    \* history: changes of isAISpeaking from true to false
    tbuf,           \* transcriptionBuffer.current
    history,        \* React state history
    txPending,      \* onmessage handlers suspended at await handleImageGeneration
    turn,           \* history: the fragments delivered since the last turnComplete
    due,            \* history: per delivered turnComplete, the fragments of its turn
    flushLog,       \* history: the executions of the turnComplete block
    status,         \* React state status
    error,          \* React state error is not null
    sessionRef,     \* sessionRef.current: 0 for null, else the run that opened it
    streamRef,      \* streamRef.current, likewise
    inputAudioContextRef,   \* inputAudioContextRef.current, likewise
    outputAudioContextRef,  \* outputAudioContextRef.current, likewise
    runs,           \* the calls of startConversation with the resources they made
    sessLog,        \* history: the calls of stopConversation and the frames sent
    capture,        \* one sample of an onaudioprocess buffer and its Int16Array element
    codec           \* a byte sequence, its encode() text and the decode() of the text

schedVars == <<currentTime, nextStartTime, sourcesRef, isAISpeaking, pending,
               clips, stopped, endedFired, epoch, endedSignals, transitions>>

txVars == <<tbuf, history, txPending, turn, due, flushLog>>

sessVars == <<status, error, sessionRef, streamRef, inputAudioContextRef,
              outputAudioContextRef, runs, sessLog>>

fnVars == <<capture, codec>>

vars == <<variant, nmsgs, schedVars, txVars, sessVars, fnVars>>

\* ---- inbound messages ----
\* audio: byte length of modelTurn.parts[0].inlineData.data after decode();
\* 0 stands for a message without audio, 1 for a frame of odd length, 2 for a
\* frame of one sample.
AudioBytes == {0, 1, 2}

\* A frame of odd length ends the handler at the await, before the interrupted
\* flag is read; a message with neither audio nor the flag does not reach the
\* scheduler.
Messages ==
    {m \in [audio : AudioBytes, interrupted : BOOLEAN] :
        /\ m.audio # 0 \/ m.interrupted
        /\ m.audio % 2 = 1 => ~m.interrupted}

\* ---- codec (utils/audioUtils) ----
\* int16BytesToFloat fails unless the length is a multiple of 2 * channels.
DecodeOk(bytes) == bytes % 2 = 0

\* durationSeconds = len(samples) / sampleRate, two bytes per sample.
Duration(bytes) == bytes \div 2

\* ---- the scheduler state threaded through one handler run ----
Max(a, b) == IF a >= b THEN a ELSE b

S == [next    |-> nextStartTime,
      src     |-> sourcesRef,
      spk     |-> isAISpeaking,
      pend    |-> pending,
      clips   |-> clips,
      stopped |-> stopped,
      epoch   |-> epoch,
      sig     |-> endedSignals,
      trans   |-> transitions]

Commit(s) ==
    /\ nextStartTime' = s.next
    /\ sourcesRef' = s.src
    /\ isAISpeaking' = s.spk
    /\ pending' = s.pend
    /\ clips' = s.clips
    /\ stopped' = s.stopped
    /\ epoch' = s.epoch
    /\ endedSignals' = s.sig
    /\ transitions' = s.trans

\* setIsAISpeaking(v)
SetIsAISpeaking(s, v) ==
    [s EXCEPT !.spk = v,
              !.sig = IF v THEN @ ELSE @ + 1,
              !.trans = IF s.spk /\ ~v THEN @ + 1 ELSE @]

\* if (message.serverContent?.interrupted) { ... }
InterruptedBlock(s) ==
    SetIsAISpeaking([s EXCEPT !.stopped = @ \cup s.src,
                              !.src = {},
                              !.next = 0,
                              !.epoch = @ + 1], FALSE)

\* Variant of ClockAtEnqueue without the Math.max: the clock is set to the
\* device time.
ClockAtEnqueueNow(next, now) == now

\* nextStartTimeRef.current = Math.max(nextStartTimeRef.current, outputCtx.currentTime)
ClockAtEnqueue(next, now) == Max(next, now)

\* Variant of StartAt that starts the clip at the device time.
StartAtNow(next, now) == now

\* source.start(nextStartTimeRef.current)
StartAt(next, now) == next

\* nextStartTimeRef.current += audioBuffer.duration
ClockAfterStart(next, dur) == next + dur

\* sourcesRef.current.add(source); P0b calls sourcesRef.add(s), which is not
\* a function of the ref object: the call throws and adds nothing.
AddThrows == variant = "P0b"

AddSource(s, id) ==
    IF AddThrows THEN s ELSE [s EXCEPT !.src = @ \cup {id}]

\* The part of the handler from `if (base64Audio) {` to the await.
BeginAudio(s, id, m) ==
    LET s1 == SetIsAISpeaking(s, TRUE)
        nx == ClockAtEnqueue(s1.next, currentTime)
        h  == [id |-> id, pc |-> "decode", msg |-> m,
               bAt |-> currentTime, bNext |-> s.next,
               bLen |-> Len(s.clips), bumped |-> FALSE, cut |-> FALSE]
        \* history: the handlers whose clip waits while the clock is moved
        old == IF nx # s.next
               THEN {[g EXCEPT !.bumped = TRUE] : g \in s.pend}
               ELSE s.pend
    IN  [s1 EXCEPT !.next = nx,
                   !.pend = old \cup {h}]

\* The part of the handler after the await, up to sourcesRef.current.add.
ScheduleClip(s, h) ==
    LET dur == Duration(h.msg.audio)
        c == [id |-> h.id, start |-> StartAt(s.next, currentTime), dur |-> dur,
              at |-> currentTime, epoch |-> s.epoch,
              bAt |-> h.bAt, bNext |-> h.bNext, bLen |-> h.bLen,
              bumped |-> h.bumped, cut |-> h.cut]
    IN  AddSource([s EXCEPT !.clips = Append(@, c),
                            !.next = ClockAfterStart(s.next, dur)], h.id)

\* What follows the audio block in the handler.
AfterAudio(s, m) == IF m.interrupted THEN InterruptedBlock(s) ELSE s

\* history: the handlers of the frames delivered before message id that
\* wait for their decode when the interrupted block of message id has run.
Barge(s, id, m) ==
    IF m.interrupted
    THEN [s EXCEPT !.pend = {[g EXCEPT !.cut = @ \/ g.id < id] : g \in s.pend}]
    ELSE s

\* The scheduler part of the handler, from `const base64Audio = ...`.
Body(s, id, m) ==
    IF m.audio # 0 THEN BeginAudio(s, id, m)
    ELSE Barge(AfterAudio(s, m), id, m)

\* The 'ended' listener of source id.
EndedListener(s, id) ==
    LET s1 == [s EXCEPT !.src = @ \ {id}]
    IN  IF s1.src = {} THEN SetIsAISpeaking(s1, FALSE) ELSE s1

\* ---- the sources ----
Started == {clips[i].id : i \in 1..Len(clips)}

ClipOf(id) == CHOOSE c \in {clips[i] : i \in 1..Len(clips)} : c.id = id

\* A start time in the past begins playback at once.
PlaybackEnd(c) == Max(c.start, c.at) + c.dur

\* ---- actions ----
\* The refs and state of the scheduler after the component is mounted.
SchedInit ==
    /\ currentTime = 0
    /\ nextStartTime = 0
    /\ sourcesRef = {}
    /\ isAISpeaking = FALSE
    /\ pending = {}
    /\ nmsgs = 0
    /\ clips = <<>>
    /\ stopped = {}
    /\ endedFired = {}
    /\ epoch = 0
    /\ endedSignals = 0
    /\ transitions = 0

\* The transcript refs and state after the component is mounted.
TxInit ==
    /\ tbuf = [user |-> <<>>, ai |-> <<>>]
    /\ history = <<>>
    /\ txPending = {}
    /\ turn = [user |-> <<>>, ai |-> <<>>, ufr |-> {}, afr |-> {}]
    /\ due = {}
    /\ flushLog = <<>>

\* The session refs and state after the component is mounted.
SessInit ==
    /\ status = "DISCONNECTED"
    /\ error = FALSE
    /\ sessionRef = 0
    /\ streamRef = 0
    /\ inputAudioContextRef = 0
    /\ outputAudioContextRef = 0
    /\ runs = <<>>
    /\ sessLog = [stops |-> 0, torn |-> FALSE, tornFrom |-> "DISCONNECTED",
                  closedAgain |-> 0, sentTorn |-> 0, sent |-> 0,
                  trace |-> <<>>, unstopped |-> FALSE, startMsgs |-> 0,
                  errored |-> {}, frames |-> <<>>,
                  carried |-> [user |-> <<>>, ai |-> <<>>]]

\* No sample has been captured and no byte sequence encoded.
FnInit ==
    /\ capture = [sample |-> 0, int16 |-> 0, done |-> FALSE]
    /\ codec = [b |-> <<>>, text |-> <<>>, out |-> <<>>, pc |-> "bytes"]

Init ==
    /\ variant \in SchedulerVariants
    /\ SchedInit
    /\ TxInit
    /\ SessInit
    /\ FnInit

\* The audio hardware advances the clock of the output context.
Tick ==
    /\ currentTime + 1 \in Clock
    /\ currentTime' = currentTime + 1
    /\ UNCHANGED <<variant, nextStartTime, sourcesRef, isAISpeaking, pending,
                   nmsgs, clips, stopped, endedFired, epoch,
                   endedSignals, transitions>>
    /\ UNCHANGED <<txVars, sessVars, fnVars>>

\* onmessage is called with m and runs to its first await or to its end.
OnMessage(m) ==
    /\ nmsgs < MaxMsgs
    /\ nmsgs' = nmsgs + 1
    /\ Commit(Body(S, nmsgs + 1, m))
    /\ UNCHANGED <<variant, currentTime, endedFired>>
    /\ UNCHANGED <<txVars, sessVars, fnVars>>

\* decodeAudioData resolves: the clip is started; the rest of the handler runs
\* unless sourcesRef.add threw.
DecodeResolve(h) ==
    /\ h \in pending /\ h.pc = "decode"
    /\ DecodeOk(h.msg.audio)
    /\ LET s1 == ScheduleClip([S EXCEPT !.pend = @ \ {h}], h)
       IN  Commit(IF AddThrows THEN s1
                  ELSE Barge(AfterAudio(s1, h.msg), h.id, h.msg))
    /\ UNCHANGED <<variant, currentTime, nmsgs, endedFired>>
    /\ UNCHANGED <<txVars, sessVars, fnVars>>

\* decodeAudioData rejects: the handler ends with the exception.
DecodeReject(h) ==
    /\ h \in pending /\ h.pc = "decode"
    /\ ~DecodeOk(h.msg.audio)
    /\ pending' = pending \ {h}
    /\ UNCHANGED <<variant, currentTime, nextStartTime, sourcesRef, isAISpeaking,
                   nmsgs, clips, stopped, endedFired, epoch,
                   endedSignals, transitions>>
    /\ UNCHANGED <<txVars, sessVars, fnVars>>

\* The 'ended' event of a source: after stop(), or when its buffer has played.
Ended(id) ==
    /\ id \in Started \ endedFired
    /\ id \in stopped \/ currentTime >= PlaybackEnd(ClipOf(id))
    /\ endedFired' = endedFired \cup {id}
    /\ Commit(EndedListener(S, id))
    /\ UNCHANGED <<variant, currentTime, nmsgs>>
    /\ UNCHANGED <<txVars, sessVars, fnVars>>

Next ==
    \/ Tick
    \/ \E m \in Messages : OnMessage(m)
    \/ \E h \in pending : DecodeResolve(h)
    \/ \E h \in pending : DecodeReject(h)
    \/ \E id \in Started : Ended(id)

Spec == Init /\ [][Next]_vars

TypeOK ==
    /\ variant \in Variants
    /\ currentTime \in Clock
    /\ nextStartTime \in Nat
    /\ sourcesRef \subseteq 1..MaxMsgs
    /\ isAISpeaking \in BOOLEAN
    /\ nmsgs \in 0..MaxMsgs
    /\ Len(clips) <= MaxMsgs

\* ---- properties ----
Idx == 1..Len(clips)

PendingIds == {h.id : h \in pending}

\* B = clips[i + 1] was enqueued when A = clips[i] was the clip scheduled last,
\* below the clock, and no interrupted block ran between the two calls of start.
GaplessCase(i) ==
    /\ clips[i + 1].bLen = i
    /\ clips[i + 1].epoch = clips[i].epoch
    /\ clips[i + 1].bAt < clips[i + 1].bNext

C2_CatchUp ==
    \A i \in Idx : clips[i].bAt > clips[i].bNext => clips[i].start = clips[i].bAt

\* C3: without an interrupt nextStartTime never decreases and every clip starts
\* at or after the end of each clip scheduled before it; nextStartTime
\* decreases only by the reset to 0 of the interrupted block.
C3_NoOverlap ==
    \A i, j \in Idx : i < j /\ clips[i].epoch = clips[j].epoch =>
        clips[j].start >= clips[i].start + clips[i].dur

C3_Monotone ==
    /\ []C3_NoOverlap
    /\ [][/\ epoch' = epoch => nextStartTime' >= nextStartTime
          /\ nextStartTime' < nextStartTime => epoch' = epoch + 1 /\ nextStartTime' = 0]_vars

\* Two clips scheduled without an interrupt between them, after the clock was
\* reset by an earlier interrupt.
C3_Witness ==
    \E i, j \in Idx : /\ i < j /\ clips[i].epoch = clips[j].epoch
                      /\ clips[i].epoch > 0
                      /\ clips[i].dur > 0

\* C4: no scheduling into the past. When source.start is called the start time
\* is at or after the device time of that instant.
C4_NoPast ==
    \A i \in Idx : clips[i].start >= clips[i].at

\* C5: arrival order. A frame delivered before another one has its start time
\* assigned first, and the start time is lower.
C5_ArrivalOrder ==
    \A i, j \in Idx : clips[i].id < clips[j].id =>
        /\ i < j
        /\ clips[i].epoch = clips[j].epoch => clips[i].start < clips[j].start

\* C6: the interrupted block stops every scheduled source that has not
\* finished, empties the active set, resets nextStartTime to 0 and sets the
\* speaking state to false.
C6_Interrupt ==
    [][epoch' # epoch =>
          /\ Started' \subseteq (stopped' \cup endedFired')
          /\ sourcesRef \subseteq stopped'
          /\ sourcesRef' = {}
          /\ nextStartTime' = 0
          /\ ~isAISpeaking']_vars

\* C7: an interrupt always leaves an empty active set and nextStartTime = 0, and
\* speaking-ended is signalled at most once per change of the speaking state
\* from true to false.
C7_Idempotent ==
    /\ [][epoch' # epoch => sourcesRef' = {} /\ nextStartTime' = 0]_vars
    /\ [](endedSignals <= transitions)

\* C8: when no handler is suspended in an enqueue, isAISpeaking is true exactly
\* when the active set is not empty; an 'ended' event removes its source and
\* signals speaking-ended exactly when the set is then empty.
C8_SpeakingFollowsSet ==
    /\ [](pending = {} => (isAISpeaking <=> sourcesRef # {}))
    /\ [][endedFired' # endedFired =>
             /\ sourcesRef' = sourcesRef \ (endedFired' \ endedFired)
             /\ endedSignals' # endedSignals <=> sourcesRef' = {}]_vars

\* Three clips of one duration, no interrupt, each scheduled before the clip
\* scheduled before it ends.
EndToEndCase ==
    /\ Len(clips) = 3
    /\ epoch = 0
    /\ clips[2].dur = clips[1].dur /\ clips[3].dur = clips[1].dur
    /\ \A k \in {2, 3} : clips[k].at < clips[k - 1].start + clips[k - 1].dur

\* C9: end to end. Three such clips occupy one contiguous span, and the
\* speaking state goes from true to false once, after the third clip has played.
C9_EndToEnd ==
    EndToEndCase =>
        /\ \A k \in {2, 3} : clips[k].start = clips[k - 1].start + clips[k - 1].dur
        /\ transitions >= 1 =>
              /\ Started \subseteq endedFired
              /\ currentTime >= clips[3].start + clips[3].dur
        /\ Started \subseteq endedFired => transitions = 1

\* C10: malformed frame isolation. When the decode of a frame fails,
\* nextStartTime is what it was before the enqueue of that frame began and the
\* active set is unchanged.
C10_MalformedIsolation ==
    [][\A h \in pending :
          h.id \notin PendingIds' /\ ~DecodeOk(h.msg.audio) =>
              nextStartTime' = h.bNext /\ sourcesRef' = sourcesRef]_vars

\* ======================================================================
\* Transcript accumulator: the first part of onmessage
\* ======================================================================

\* P0a has the transcript code of P1 (part_000:381-416 is part_001:354-389).
TranscriptVariants == {"App", "P0b", "P1"}

\* The tools of the session: ai.live.connect is given
\* tools: [{ functionDeclarations: [generateImageTool] }].
HasTools == variant \in {"P0a", "P1"}

\* Transcription texts are sequences of characters; <<>> stands for a message
\* without that transcription.
UserFragments == {<<>>, <<"a">>, <<"c", " ">>, <<" ">>}

AgentFragments == {<<>>, <<"b">>}

\* in: inputTranscription.text, out: outputTranscription.text,
\* turnComplete: serverContent.turnComplete, tool: toolCall with one
\* generate_image call. A server message is either a toolCall or a
\* serverContent, and a serverContent without any of the three fields does not
\* reach the accumulator.
TxMessages ==
    {m \in [in : UserFragments, out : AgentFragments, turnComplete : BOOLEAN,
            tool : BOOLEAN] :
        IF m.tool THEN m.in = <<>> /\ m.out = <<>> /\ ~m.turnComplete
        ELSE m.in # <<>> \/ m.out # <<>> \/ m.turnComplete}

White == {" "}

Blank(t) == \A i \in 1..Len(t) : t[i] \in White

\* Variant of Trim that keeps the text as it is.
TrimNone(t) == t

\* String.prototype.trim
Trim(t) ==
    IF Blank(t) THEN <<>>
    ELSE LET ink == {i \in 1..Len(t) : t[i] \notin White}
             lo == CHOOSE i \in ink : \A j \in ink : i <= j
             hi == CHOOSE i \in ink : \A j \in ink : i >= j
         IN  SubSeq(t, lo, hi)

\* The two optional entries of setHistory(prev => [...prev, ...]).
Entries(u, a) ==
    (IF u # <<>> THEN <<[role |-> "user", text |-> u, image |-> FALSE]>> ELSE <<>>)
    \o (IF a # <<>> THEN <<[role |-> "aria", text |-> a, image |-> FALSE]>> ELSE <<>>)

\* The transcript state threaded through one handler run.
T == [buf |-> tbuf, hist |-> history, log |-> flushLog]

TxCommit(t) ==
    /\ tbuf' = t.buf
    /\ history' = t.hist
    /\ flushLog' = t.log

\* The two statements on outputTranscription and inputTranscription: App has
\* `if ... else if`, the other versions two `if`.
AppendFragments(t, m) ==
    IF variant = "App"
    THEN IF m.out # <<>> THEN [t EXCEPT !.buf.ai = @ \o m.out]
         ELSE IF m.in # <<>> THEN [t EXCEPT !.buf.user = @ \o m.in]
         ELSE t
    ELSE LET t1 == IF m.out # <<>> THEN [t EXCEPT !.buf.ai = @ \o m.out] ELSE t
         IN  IF m.in # <<>> THEN [t1 EXCEPT !.buf.user = @ \o m.in] ELSE t1

\* if (message.serverContent?.turnComplete) { ... }
TurnCompleteBlock(t, id) ==
    LET uText == Trim(t.buf.user)
        aText == Trim(t.buf.ai)
        out   == IF uText # <<>> \/ aText # <<>> THEN Entries(uText, aText) ELSE <<>>
    IN  [t EXCEPT !.hist = @ \o out,
                  !.buf = [user |-> <<>>, ai |-> <<>>],
                  !.log = Append(@, [id |-> id, u |-> t.buf.user, a |-> t.buf.ai,
                                     entries |-> out,
                                     before |-> t.hist, after |-> t.hist \o out])]

\* The transcript part of the handler, after the toolCall block.
TranscriptBody(t, id, m) ==
    LET t1 == AppendFragments(t, m)
    IN  IF m.turnComplete THEN TurnCompleteBlock(t1, id) ELSE t1

\* setHistory in handleImageGeneration, when the response holds an image.
ImageEntry == [role |-> "aria", text |-> <<>>, image |-> TRUE]

\* history: what the channel delivered, in arrival order.
Deliver(id, m) ==
    LET u == turn.user \o m.in
        a == turn.ai \o m.out
        uf == turn.ufr \cup (IF Blank(m.in) THEN {} ELSE {m.in})
        af == turn.afr \cup (IF Blank(m.out) THEN {} ELSE {m.out})
    IN  IF m.turnComplete
        THEN /\ due' = due \cup {[id |-> id, user |-> u, ai |-> a, ufr |-> uf, afr |-> af]}
             /\ turn' = [user |-> <<>>, ai |-> <<>>, ufr |-> {}, afr |-> {}]
        ELSE /\ due' = due
             /\ turn' = [user |-> u, ai |-> a, ufr |-> uf, afr |-> af]

TranscriptInit ==
    /\ variant \in TranscriptVariants
    /\ SchedInit
    /\ TxInit
    /\ SessInit
    /\ FnInit

\* onmessage is called with m; with a generate_image call it runs to
\* `await handleImageGeneration`, otherwise through the transcript part.
OnTxMessage(m) ==
    /\ nmsgs < MaxMsgs
    /\ m.tool => HasTools
    /\ nmsgs' = nmsgs + 1
    /\ Deliver(nmsgs + 1, m)
    /\ IF m.tool
       THEN /\ txPending' = txPending \cup {[id |-> nmsgs + 1, msg |-> m]}
            /\ UNCHANGED <<tbuf, history, flushLog>>
       ELSE /\ TxCommit(TranscriptBody(T, nmsgs + 1, m))
            /\ UNCHANGED txPending
    /\ UNCHANGED <<variant, schedVars, sessVars, fnVars>>

\* handleImageGeneration returns, with or without an image appended to the
\* history, and the handler goes on with the transcript part.
ToolDone(h, img) ==
    /\ h \in txPending
    /\ txPending' = txPending \ {h}
    /\ LET t0 == IF img THEN [T EXCEPT !.hist = Append(@, ImageEntry)] ELSE T
       IN  TxCommit(TranscriptBody(t0, h.id, h.msg))
    /\ UNCHANGED <<variant, nmsgs, schedVars, turn, due, sessVars, fnVars>>

TranscriptNext ==
    \/ \E m \in TxMessages : OnTxMessage(m)
    \/ \E h \in txPending, img \in BOOLEAN : ToolDone(h, img)

SpecTranscript == TranscriptInit /\ [][TranscriptNext]_vars

\* ---- properties of the transcript accumulator ----
FlushIdx == 1..Len(flushLog)

\* The turn that the turnComplete of message id closed, as it was delivered.
DueOf(id) == CHOOSE d \in due : d.id = id

\* f occurs in text.
Contains(text, f) ==
    \E i \in 0..(Len(text) - Len(f)) : SubSeq(text, i + 1, i + Len(f)) = f

TextsOf(entries, role) ==
    {entries[i].text : i \in {j \in 1..Len(entries) : entries[j].role = role}}

\* C12: turn flush. The entries emitted on a turnComplete are one user entry
\* with the trimmed concatenation of the user fragments of the turn in arrival
\* order (if not empty), then one agent entry with the trimmed concatenation
\* of the agent fragments (if not empty).
C12_TurnFlush ==
    \A k \in FlushIdx :
        flushLog[k].entries =
            Entries(Trim(DueOf(flushLog[k].id).user), Trim(DueOf(flushLog[k].id).ai))

\* C13: every fragment delivered after the previous turnComplete and up to a
\* turnComplete (its own message included) is contained in the entries
\* flushed at that turnComplete.
C13_NoFragmentLost ==
    \A k \in FlushIdx :
        /\ \A f \in DueOf(flushLog[k].id).ufr :
              \E t \in TextsOf(flushLog[k].entries, "user") : Contains(t, Trim(f))
        /\ \A f \in DueOf(flushLog[k].id).afr :
              \E t \in TextsOf(flushLog[k].entries, "aria") : Contains(t, Trim(f))

\* C14: empty flush. A turnComplete block run with both accumulators empty or
\* whitespace-only leaves the history as it was, and every turnComplete block
\* leaves both accumulators empty.
C14_EmptyFlush ==
    /\ [](\A k \in FlushIdx :
             Blank(flushLog[k].u) /\ Blank(flushLog[k].a) =>
                 flushLog[k].after = flushLog[k].before)
    /\ [][Len(flushLog') > Len(flushLog) => tbuf' = [user |-> <<>>, ai |-> <<>>]]_vars

\* A turnComplete block ran on a whitespace-only user accumulator when the
\* history already held an entry.
C14_Witness ==
    \E k \in FlushIdx :
        /\ Blank(flushLog[k].u) /\ flushLog[k].u # <<>>
        /\ Blank(flushLog[k].a)
        /\ flushLog[k].before # <<>>

\* ======================================================================
\* Session lifecycle: startConversation, stopConversation, the channel
\* callbacks and the capture tap
\* ======================================================================

\* P0a has the session code of P1 (part_000:212-223 and 316-481 are
\* part_001:199-210 and 284-437 but for the texts of the errors).
SessionVariants == {"App", "P0b", "P1"}

\* The calls of startConversation in one behaviour.
StartIds == 1..2

\* The calls of stopConversation from the user interface in one behaviour.
StopIds == 1..2

\* The outbound frames passed to sendRealtimeInput in one behaviour.
FrameIds == 1..2

\* The inbound messages of the sessions in one behaviour: audio frames, well
\* formed or of odd length.
SessionMsgIds == 1..2

SessionMessages == {m \in Messages : m.audio # 0 /\ ~m.interrupted}

\* The values of the clock of an output context while sessions run.
SessionClock == 0..1

\* What one call of startConversation has made: its position, the stream of
\* getUserMedia, the two AudioContexts, the channel of ai.live.connect, the
\* onaudioprocess tap, and whether onclose was delivered.
NewRun == [pc |-> "getUserMedia", stream |-> "none", inCtx |-> "none",
           outCtx |-> "none", channel |-> "none", tap |-> FALSE,
           notified |-> FALSE]

\* The session state threaded through one callback, with the scheduler
\* state s.
Z == [status |-> status, error |-> error, sessionRef |-> sessionRef,
      streamRef |-> streamRef, inRef |-> inputAudioContextRef,
      outRef |-> outputAudioContextRef, runs |-> runs, log |-> sessLog,
      s |-> S]

ZCommit(z) ==
    /\ status' = z.status
    /\ error' = z.error
    /\ sessionRef' = z.sessionRef
    /\ streamRef' = z.streamRef
    /\ inputAudioContextRef' = z.inRef
    /\ outputAudioContextRef' = z.outRef
    /\ runs' = z.runs
    /\ sessLog' = z.log
    /\ Commit(z.s)

\* App tests each ref and sets the context refs to null; the other versions
\* call through `?.` and keep the context refs.
NullsContexts == variant = "App"

\* sessionRef.current.close(); sessionRef.current = null
CloseChannel(z) ==
    IF z.sessionRef = 0 THEN z
    ELSE [z EXCEPT !.runs[z.sessionRef].channel = "closed",
                   !.sessionRef = 0,
                   !.log.trace = Append(@, "channel")]

\* A teardown that leaves the tracks of the stream running.
StopCaptureSkipped(z) == z

\* streamRef.current.getTracks().forEach(track => track.stop()); streamRef.current = null
StopCapture(z) ==
    IF z.streamRef = 0 THEN z
    ELSE [z EXCEPT !.runs[z.streamRef].stream = "stopped",
                   !.streamRef = 0,
                   !.log.trace = Append(@, "capture")]

\* inputAudioContextRef.current.close()
CloseInput(z) ==
    IF z.inRef = 0 THEN z
    ELSE [z EXCEPT !.runs[z.inRef].inCtx = "closed",
                   !.inRef = IF NullsContexts THEN 0 ELSE @,
                   !.log.closedAgain =
                       IF z.runs[z.inRef].inCtx = "closed" THEN @ + 1 ELSE @,
                   !.log.trace = Append(@, "input")]

\* outputAudioContextRef.current.close()
CloseOutput(z) ==
    IF z.outRef = 0 THEN z
    ELSE [z EXCEPT !.runs[z.outRef].outCtx = "closed",
                   !.outRef = IF NullsContexts THEN 0 ELSE @,
                   !.log.closedAgain =
                       IF z.runs[z.outRef].outCtx = "closed" THEN @ + 1 ELSE @,
                   !.log.unstopped = z.s.src # {},
                   !.log.trace = Append(@, "output")]

\* sourcesRef.current.forEach(source => source.stop()); sourcesRef.current.clear()
StopSources(z) ==
    [z EXCEPT !.s.stopped = @ \cup z.s.src,
              !.s.src = {},
              !.log.trace = Append(@, "playback")]

\* stopConversation
StopConversation(z) ==
    LET z0 == [z EXCEPT !.log.trace = <<>>, !.log.unstopped = FALSE]
        z5 == StopSources(CloseOutput(CloseInput(StopCapture(CloseChannel(z0)))))
    IN  [z5 EXCEPT !.status = "DISCONNECTED",
                   !.s = SetIsAISpeaking(z5.s, FALSE),
                   !.log.stops = @ + 1,
                   !.log.torn = TRUE,
                   !.log.tornFrom = z.status]

\* new AudioContext({ sampleRate: 16000 }), new AudioContext({ sampleRate: 24000 })
CreateContexts(z, k) ==
    [z EXCEPT !.runs[k].inCtx = "open", !.runs[k].outCtx = "open",
              !.inRef = k, !.outRef = k]

\* App makes the contexts before `await getUserMedia`, the other versions
\* after it.
ContextsFirst == variant = "App"

\* The catch block of startConversation: App sets the error and the status,
\* the other versions set the error and call stopConversation.
Catch(z, k) ==
    LET z1 == [z EXCEPT !.error = TRUE, !.runs[k].pc = "done"]
    IN  IF variant = "App" THEN [z1 EXCEPT !.status = "DISCONNECTED"]
        ELSE StopConversation(z1)

\* The zero-length frame sent from onopen.
SendsKeepalive == variant \in {"P0a", "P1"}

\* The buttons that call stopConversation are shown when the status is not
\* DISCONNECTED; startNewConversation, loadSession and handleLogout call it
\* in any status.
StopsInAnyStatus == variant \in {"P0a", "P1"}

\* The frame of the keepalive: new Uint8Array(0).
KeepaliveFrame == "empty"

\* A captured frame without samples.
CaptureFrameEmpty == "empty"

\* The frame of onaudioprocess: the samples of one buffer of the script
\* processor.
CaptureFrame == "audio"

\* session.sendRealtimeInput of one frame on the channel of run k: a closed
\* channel drops it.
Send(z, k, frame) ==
    IF z.runs[k].channel = "open"
    THEN [z EXCEPT !.log.sent = @ + 1,
                   !.log.sentTorn = IF z.log.torn THEN @ + 1 ELSE @,
                   !.log.frames = Append(@, [run |-> k, frame |-> frame])]
    ELSE z

SessionInit ==
    /\ variant \in SessionVariants
    /\ SchedInit
    /\ TxInit
    /\ SessInit
    /\ FnInit

\* The call k of startConversation has ended and its channel is down. The
\* behaviours explored have no two calls of startConversation under way at
\* once.
Over(k) == runs[k].pc = "done" /\ runs[k].channel \notin {"connecting", "open"}

\* startConversation, to `await navigator.mediaDevices.getUserMedia`; its
\* button is shown when the status is DISCONNECTED.
StartConversation ==
    /\ Len(runs) + 1 \in StartIds
    /\ status = "DISCONNECTED"
    /\ \A k \in 1..Len(runs) : Over(k)
    /\ LET k  == Len(runs) + 1
           z1 == [Z EXCEPT !.status = "CONNECTING", !.error = FALSE,
                           !.runs = Append(@, NewRun), !.log.torn = FALSE,
                           !.log.startMsgs = nmsgs, !.log.carried = tbuf]
       IN  /\ ZCommit(IF ContextsFirst THEN CreateContexts(z1, k) ELSE z1)
           /\ currentTime' = IF ContextsFirst THEN 0 ELSE currentTime
    /\ UNCHANGED <<variant, nmsgs, endedFired, txVars, fnVars>>

\* getUserMedia resolves: startConversation goes on to `await sessionPromise`.
GetUserMediaResolve(k) ==
    /\ k \in 1..Len(runs) /\ runs[k].pc = "getUserMedia"
    /\ LET z1 == [Z EXCEPT !.runs[k].stream = "live", !.streamRef = k,
                           !.runs[k].pc = "connect",
                           !.runs[k].channel = "connecting"]
       IN  /\ ZCommit(IF ContextsFirst THEN z1 ELSE CreateContexts(z1, k))
           /\ currentTime' = IF ContextsFirst THEN currentTime ELSE 0
    /\ UNCHANGED <<variant, nmsgs, endedFired, txVars, fnVars>>

\* getUserMedia rejects.
GetUserMediaReject(k) ==
    /\ k \in 1..Len(runs) /\ runs[k].pc = "getUserMedia"
    /\ ZCommit(Catch(Z, k))
    /\ UNCHANGED <<variant, nmsgs, currentTime, endedFired, txVars, fnVars>>

\* The channel opens: callbacks.onopen runs, then sessionPromise resolves
\* in the same task, startConversation assigns sessionRef.current and ends,
\* and the send that waited on the promise runs. createMediaStreamSource on a
\* closed context may throw (thr); then the rest of onopen is skipped and
\* the promise stays unresolved.
OnOpen(k, thr) ==
    /\ k \in 1..Len(runs) /\ runs[k].channel = "connecting"
    /\ thr => runs[k].inCtx = "closed"
    /\ LET z1 == [Z EXCEPT !.runs[k].channel = "open", !.status = "CONNECTED"]
           z2 == [z1 EXCEPT !.runs[k].tap = TRUE, !.sessionRef = k,
                            !.runs[k].pc = "done"]
       IN  ZCommit(IF thr THEN z1
                   ELSE IF SendsKeepalive THEN Send(z2, k, KeepaliveFrame) ELSE z2)
    /\ UNCHANGED <<variant, nmsgs, currentTime, endedFired, txVars, fnVars>>

\* sessionPromise rejects after the channel failed while connecting.
ConnectReject(k) ==
    /\ k \in 1..Len(runs) /\ runs[k].pc = "connect"
    /\ runs[k].channel = "closed"
    /\ ZCommit(Catch(Z, k))
    /\ UNCHANGED <<variant, nmsgs, currentTime, endedFired, txVars, fnVars>>

\* The channel fails: callbacks.onerror.
OnError(k) ==
    /\ k \in 1..Len(runs) /\ runs[k].channel \in {"connecting", "open"}
    /\ ZCommit(StopConversation([Z EXCEPT !.runs[k].channel = "closed",
                                          !.error = TRUE,
                                          !.log.errored = @ \cup {k}]))
    /\ UNCHANGED <<variant, nmsgs, currentTime, endedFired, txVars, fnVars>>

\* callbacks.onclose of a closed channel.
OnClose(k) ==
    /\ k \in 1..Len(runs) /\ runs[k].channel = "closed" /\ ~runs[k].notified
    /\ ZCommit([Z EXCEPT !.runs[k].notified = TRUE, !.status = "DISCONNECTED"])
    /\ UNCHANGED <<variant, nmsgs, currentTime, endedFired, txVars, fnVars>>

\* The server closes the channel: callbacks.onclose.
RemoteClose(k) ==
    /\ k \in 1..Len(runs) /\ runs[k].channel = "open"
    /\ ZCommit([Z EXCEPT !.runs[k].channel = "closed",
                         !.runs[k].notified = TRUE,
                         !.status = "DISCONNECTED"])
    /\ UNCHANGED <<variant, nmsgs, currentTime, endedFired, txVars, fnVars>>

\* stopConversation called from the user interface.
StopCall ==
    /\ sessLog.stops + 1 \in StopIds
    /\ StopsInAnyStatus \/ status # "DISCONNECTED"
    /\ ZCommit(StopConversation(Z))
    /\ UNCHANGED <<variant, nmsgs, currentTime, endedFired, txVars, fnVars>>

\* scriptProcessor.onaudioprocess of run k:
\* sessionPromise.then(session => session.sendRealtimeInput(...)).
CaptureTick(k) ==
    /\ k \in 1..Len(runs) /\ runs[k].tap /\ runs[k].inCtx = "open"
    /\ sessLog.sent + 1 \in FrameIds
    /\ ZCommit(Send(Z, k, CaptureFrame))
    /\ UNCHANGED <<variant, nmsgs, currentTime, endedFired, txVars, fnVars>>

\* The channel of the last run delivers m.
RecvMessage(m) ==
    /\ Len(runs) > 0 /\ runs[Len(runs)].channel = "open"
    /\ nmsgs + 1 \in SessionMsgIds
    /\ OnMessage(m)

\* The clock of the last output context advances while the context is open.
SessionTick ==
    /\ Len(runs) > 0 /\ runs[Len(runs)].outCtx = "open"
    /\ currentTime + 1 \in SessionClock
    /\ Tick

SessionNext ==
    \/ StartConversation
    \/ \E k \in StartIds : GetUserMediaResolve(k)
    \/ \E k \in StartIds : GetUserMediaReject(k)
    \/ \E k \in StartIds, thr \in BOOLEAN : OnOpen(k, thr)
    \/ \E k \in StartIds : ConnectReject(k)
    \/ \E k \in StartIds : OnError(k)
    \/ \E k \in StartIds : OnClose(k)
    \/ \E k \in StartIds : RemoteClose(k)
    \/ StopCall
    \/ \E k \in StartIds : CaptureTick(k)
    \/ \E m \in SessionMessages : RecvMessage(m)
    \/ SessionTick
    \/ \E h \in pending : DecodeResolve(h)
    \/ \E h \in pending : DecodeReject(h)
    \/ \E id \in Started : Ended(id)

SpecSession == SessionInit /\ [][SessionNext]_vars

\* ---- properties of the session lifecycle ----
RunIdx == 1..Len(runs)

\* C11: a decode failure on one inbound frame is reported and is not
\* terminal. When the decode of a frame fails the error state is set, the
\* status stays what it was, and the speaking state is not left true with an
\* empty active set and no enqueue under way.
C11_DecodeFailureReported ==
    [][\A h \in pending :
          h.id \notin PendingIds' /\ ~DecodeOk(h.msg.audio) =>
              /\ error'
              /\ status' = status
              /\ sourcesRef' = {} /\ pending' = {} => ~isAISpeaking']_vars

\* C15: after stopConversation has returned and until startConversation is
\* called again, no callback and no resumed handler changes the session
\* state: the active set stays empty, no source is started, nextStartTime,
\* the transcript buffer and the history keep their values and the speaking
\* state stays false.
C15_InertAfterStop ==
    [][sessLog.torn /\ sessLog'.torn /\ sessLog'.stops = sessLog.stops =>
          /\ sourcesRef' = {}
          /\ clips' = clips
          /\ nextStartTime' = nextStartTime
          /\ tbuf' = tbuf
          /\ history' = history
          /\ ~isAISpeaking']_vars

\* C16: after stopConversation has returned no outbound frame is sent on a
\* channel.
C16_NoFrameAfterStop == sessLog.sentTorn = 0

\* C17: after a stopConversation called while the session was opening
\* (status CONNECTING), the status does not become CONNECTED, the channel of
\* that session is not open and no capture tap is wired.
C17_StopWhileOpening ==
    sessLog.torn /\ sessLog.tornFrom = "CONNECTING" =>
        /\ status # "CONNECTED"
        /\ runs[Len(runs)].channel # "open"
        /\ ~runs[Len(runs)].tap

\* The program state of z, without the history.
ProgramState(z) ==
    <<z.status, z.sessionRef, z.streamRef, z.inRef, z.outRef, z.runs,
      z.s.src, z.s.spk, z.s.next>>

\* C18: stopConversation is idempotent and safe on a partly opened session:
\* no call closes a context that is closed already, and a second call right
\* after a first one leaves the state of the first.
C18_StopIdempotent ==
    /\ sessLog.closedAgain = 0
    /\ LET z1 == StopConversation(Z)
           z2 == StopConversation(z1)
       IN  /\ ProgramState(z2) = ProgramState(z1)
           /\ z2.log.closedAgain = z1.log.closedAgain

\* The place of a step in the order channel, capture, playback, devices.
Rank(step) ==
    CASE step = "channel" -> 1
      [] step = "capture" -> 2
      [] step = "playback" -> 3
      [] OTHER -> 4

\* C19: teardown order. The steps of every stopConversation run in the order
\* channel, capture, playback reset, device release, and the output context
\* is not closed while the active set holds sources.
C19_TeardownOrder ==
    /\ \A i, j \in 1..Len(sessLog.trace) :
          i < j => Rank(sessLog.trace[i]) <= Rank(sessLog.trace[j])
    /\ ~sessLog.unstopped

\* C20: stopConversation resets the scheduler like an interrupt. It leaves
\* an empty active set, the speaking state false and nextStartTime = 0, and
\* when the first frame of a session is enqueued nextStartTime is not ahead
\* of the device time.
C20_StopResetsScheduler ==
    /\ [][sessLog'.stops # sessLog.stops =>
             sourcesRef' = {} /\ ~isAISpeaking' /\ nextStartTime' = 0]_vars
    /\ [](\A i \in Idx : clips[i].id = sessLog.startMsgs + 1 =>
             clips[i].bNext <= clips[i].bAt)

\* Run k holds a resource: a live stream, an open context or a channel that
\* is not down.
Holds(k) ==
    \/ runs[k].stream = "live"
    \/ runs[k].inCtx = "open"
    \/ runs[k].outCtx = "open"
    \/ runs[k].channel \in {"connecting", "open"}

\* C21: open fails atomically. When the catch block of a call of
\* startConversation has run (the call failed at getUserMedia, at the audio
\* contexts or at the connect), the stream, the two contexts and the channel
\* of that call are released, the status is DISCONNECTED and the error is set.
C21_OpenFailsAtomically ==
    [][\A k \in RunIdx :
          (/\ runs[k].pc \in {"getUserMedia", "connect"}
           /\ runs'[k].pc = "done"
           /\ runs'[k].channel # "open")
          => /\ runs'[k].stream # "live"
             /\ runs'[k].inCtx # "open"
             /\ runs'[k].outCtx # "open"
             /\ runs'[k].channel # "connecting"
             /\ status' = "DISCONNECTED"
             /\ error']_vars

\* C22: at most one call of startConversation holds a stream, a context or a
\* channel at any time, and no reference to a stream, a context or a channel
\* is overwritten while what it refers to is still live or open.
C22_SingleHolder ==
    /\ [](\A j, k \in RunIdx : Holds(j) /\ Holds(k) => j = k)
    /\ [][/\ (streamRef # 0 /\ streamRef' \notin {0, streamRef})
             => runs[streamRef].stream # "live"
          /\ (inputAudioContextRef # 0
              /\ inputAudioContextRef' \notin {0, inputAudioContextRef})
             => runs[inputAudioContextRef].inCtx # "open"
          /\ (outputAudioContextRef # 0
              /\ outputAudioContextRef' \notin {0, outputAudioContextRef})
             => runs[outputAudioContextRef].outCtx # "open"
          /\ (sessionRef # 0 /\ sessionRef' \notin {0, sessionRef})
             => runs[sessionRef].channel # "open"]_vars

C23_WitnessConnecting ==
    \E k \in sessLog.errored : runs[k].pc = "connect" /\ runs[k].stream = "stopped"

FrameIdx == 1..Len(sessLog.frames)

\* C29: keepalive. On the channel of every call at most one zero-length
\* frame is sent, and it is sent before every captured frame of that call.
C29_Keepalive ==
    \A i, j \in FrameIdx :
        (/\ sessLog.frames[i].run = sessLog.frames[j].run
         /\ sessLog.frames[j].frame = "empty")
        => /\ (sessLog.frames[i].frame = "empty" => i = j)
           /\ (sessLog.frames[i].frame # "empty" => j < i)

\* The keepalive of a call and then a captured frame of it were sent.
C29_Witness ==
    \E i, j \in FrameIdx :
        /\ i < j
        /\ sessLog.frames[i].run = sessLog.frames[j].run
        /\ sessLog.frames[i].frame = "empty"
        /\ sessLog.frames[j].frame = "audio"

\* C24: the scheduler is idle exactly when the active set is empty, and an
\* idle scheduler has its clock at 0: whenever the active set is empty and no
\* enqueue is under way, nextStartTime = 0, also after the last clip has
\* played to its end.
C24_IdleClockZero ==
    sourcesRef = {} /\ pending = {} => nextStartTime = 0

\* C27: barge-in cancels the audio in flight. No clip is started from a frame
\* that was delivered before an interrupted signal and whose decode was
\* pending when the interrupted block of that signal ran.
C27_BargeInCancels ==
    \A i \in Idx : ~clips[i].cut

\* ======================================================================
\* Capture conversion: int16[i] = inputData[i] * 32768
\* ======================================================================

\* The factor of the conversion.
Scale == 32768

\* The samples are the multiples of 1 / (Resolution * Scale) in [-1, 1]; a
\* sample is written as its numerator.
Resolution == 4

SampleUnit == Resolution * Scale

\* The samples converted: those around -1, 0 and 1.
Samples ==
    {q \in (0 - SampleUnit)..SampleUnit :
        \/ q <= 40 - SampleUnit
        \/ q >= 0 - 40 /\ q <= 40
        \/ q >= SampleUnit - 40}

\* The integral part of num / den (ToNumber, then truncation toward zero).
Trunc(num, den) ==
    IF num >= 0 THEN num \div den ELSE 0 - ((0 - num) \div den)

\* The value modulo 2^16 read as a signed 16-bit integer.
Wrap16(x) == ((x + Scale) % (2 * Scale)) - Scale

\* The store of the number num / den into an element of an Int16Array.
Int16Store(num, den) == Wrap16(Trunc(num, den))

\* int16[i] = inputData[i] * 32768, for the sample q / SampleUnit: the
\* product is q / Resolution.
FloatToInt16(q) == Int16Store(q, Resolution)

CaptureVariants == {"App", "P1"}

CaptureInit ==
    /\ variant \in CaptureVariants
    /\ SchedInit
    /\ TxInit
    /\ SessInit
    /\ capture \in [sample : Samples, int16 : {0}, done : {FALSE}]
    /\ codec = [b |-> <<>>, text |-> <<>>, out |-> <<>>, pc |-> "bytes"]

\* One iteration of the loop of onaudioprocess.
OnAudioProcess ==
    /\ ~capture.done
    /\ capture' = [capture EXCEPT !.int16 = FloatToInt16(capture.sample),
                                  !.done = TRUE]
    /\ UNCHANGED <<variant, nmsgs, schedVars, txVars, sessVars, codec>>

CaptureNext == OnAudioProcess

SpecCapture == CaptureInit /\ [][CaptureNext]_vars

\* The integers nearest to num / den: two of them when num / den is halfway.
Nearest(num, den) ==
    LET f == IF num >= 0 THEN num \div den ELSE 0 - ((den - 1 - num) \div den)
    IN  {r \in {f, f + 1} :
            (IF r * den >= num THEN r * den - num ELSE num - r * den) * 2 <= den}

\* x limited to the signed 16-bit range.
Clip(x) ==
    IF x > Scale - 1 THEN Scale - 1 ELSE IF x < 0 - Scale THEN 0 - Scale ELSE x

\* C25: the capture conversion maps every sample s of [-1, 1] to
\* round(s * 32768) clipped to [-32768, 32767]: s = 1 gives 32767 and a
\* fractional product is rounded, not truncated.
C25_RoundAndClip ==
    capture.done =>
        capture.int16 \in
            {Clip(r) : r \in Nearest(capture.sample, Resolution)}

\* ======================================================================
\* Binary codec: encode and decode of utils/audioUtils
\* ======================================================================

\* The longest byte sequence encoded.
MaxBytes == 4

ByteValues == {0, 77, 255}

ByteSeqs == UNION {[1..n -> ByteValues] : n \in 0..MaxBytes}

\* The place of '=' after the 64 characters of the alphabet.
Pad == 64

\* base64 of a byte sequence, as the places of its characters in the
\* alphabet: four characters per three bytes, the last group padded.
RECURSIVE Encode(_)
Encode(b) ==
    IF Len(b) = 0 THEN <<>>
    ELSE IF Len(b) = 1
    THEN <<b[1] \div 4, (b[1] % 4) * 16, Pad, Pad>>
    ELSE IF Len(b) = 2
    THEN <<b[1] \div 4, (b[1] % 4) * 16 + b[2] \div 16, (b[2] % 16) * 4, Pad>>
    ELSE <<b[1] \div 4, (b[1] % 4) * 16 + b[2] \div 16,
           (b[2] % 16) * 4 + b[3] \div 64, b[3] % 64>>
         \o Encode(SubSeq(b, 4, Len(b)))

\* A decode that reads '=' as the character of place 0.
RECURSIVE DecodePadAsZero(_)
DecodePadAsZero(text) ==
    IF Len(text) < 4 THEN <<>>
    ELSE LET c == [i \in 1..4 |-> IF text[i] = Pad THEN 0 ELSE text[i]]
         IN  <<c[1] * 4 + c[2] \div 16,
               (c[2] % 16) * 16 + c[3] \div 4,
               (c[3] % 4) * 64 + c[4]>>
             \o DecodePadAsZero(SubSeq(text, 5, Len(text)))

\* The bytes of a base64 text: three bytes per four characters, one or two
\* for a padded group.
RECURSIVE Decode(_)
Decode(text) ==
    IF Len(text) < 4 THEN <<>>
    ELSE (IF text[3] = Pad
          THEN <<text[1] * 4 + text[2] \div 16>>
          ELSE IF text[4] = Pad
          THEN <<text[1] * 4 + text[2] \div 16,
                 (text[2] % 16) * 16 + text[3] \div 4>>
          ELSE <<text[1] * 4 + text[2] \div 16,
                 (text[2] % 16) * 16 + text[3] \div 4,
                 (text[3] % 4) * 64 + text[4]>>)
         \o Decode(SubSeq(text, 5, Len(text)))

CodecVariants == {"App", "P1"}

CodecInit ==
    /\ variant \in CodecVariants
    /\ SchedInit
    /\ TxInit
    /\ SessInit
    /\ capture = [sample |-> 0, int16 |-> 0, done |-> FALSE]
    /\ codec \in [b : ByteSeqs, text : {<<>>}, out : {<<>>}, pc : {"bytes"}]

\* encode(bytes)
EncodeStep ==
    /\ codec.pc = "bytes"
    /\ codec' = [codec EXCEPT !.text = Encode(codec.b), !.pc = "text"]
    /\ UNCHANGED <<variant, nmsgs, schedVars, txVars, sessVars, capture>>

\* decode(text)
DecodeStep ==
    /\ codec.pc = "text"
    /\ codec' = [codec EXCEPT !.out = Decode(codec.text), !.pc = "decoded"]
    /\ UNCHANGED <<variant, nmsgs, schedVars, txVars, sessVars, capture>>

CodecNext == EncodeStep \/ DecodeStep

SpecCodec == CodecInit /\ [][CodecNext]_vars

\* C26: the codec round-trips: decode(encode(b)) = b for every byte sequence
\* b, the empty one included.
C26_RoundTrip ==
    codec.pc = "decoded" => codec.out = codec.b

\* A sequence that is not a multiple of three bytes long, with a byte that
\* fills all eight bits, was encoded with padding and decoded.
C26_Witness ==
    /\ codec.pc = "decoded"
    /\ Len(codec.b) = MaxBytes
    /\ codec.b[1] = 255
    /\ codec.b[MaxBytes] = 77
    /\ Len(codec.text) > Len(codec.b)
    /\ codec.out = codec.b

\* ======================================================================
\* The transcript accumulator across sessions
\* ======================================================================

\* The transcript messages of the sessions: fragments and turnComplete.
TurnMessages ==
    {m \in TxMessages : ~m.tool /\ m.in \in {<<>>, <<"a">>}}

\* The channel of the last run delivers m.
RecvTxMessage(m) ==
    /\ Len(runs) > 0 /\ runs[Len(runs)].channel = "open"
    /\ OnTxMessage(m)

TurnsNext ==
    \/ StartConversation
    \/ \E k \in StartIds : GetUserMediaResolve(k)
    \/ \E k \in StartIds : GetUserMediaReject(k)
    \/ \E k \in StartIds, thr \in BOOLEAN : OnOpen(k, thr)
    \/ \E k \in StartIds : ConnectReject(k)
    \/ \E k \in StartIds : OnError(k)
    \/ \E k \in StartIds : OnClose(k)
    \/ \E k \in StartIds : RemoteClose(k)
    \/ StopCall
    \/ \E m \in TurnMessages : RecvTxMessage(m)

SpecTurns == SessionInit /\ [][TurnsNext]_vars

\* C28: transcript fragments do not leak across sessions. The transcript
\* buffer is empty when startConversation opens a new session, and the first
\* flush of a session is run on accumulators that held no fragment when the
\* session was opened.
C28_NoLeakAcrossSessions ==
    /\ [][Len(runs') > Len(runs) =>
             tbuf' = [user |-> <<>>, ai |-> <<>>]]_vars
    /\ [](\A k \in FlushIdx :
             (/\ flushLog[k].id > sessLog.startMsgs
              /\ k > 1 => flushLog[k - 1].id <= sessLog.startMsgs)
             => Blank(sessLog.carried.user) /\ Blank(sessLog.carried.ai))

\* ======================================================================
\* The scheduler under fair delivery of its events
\* ======================================================================

\* The clock of the output context goes on past the values of Clock while a
\* source that was started has not played to its end.
PlayTick ==
    /\ currentTime + 1 \notin Clock
    /\ \E id \in Started \ endedFired : currentTime < PlaybackEnd(ClipOf(id))
    /\ currentTime' = currentTime + 1
    /\ UNCHANGED <<variant, nextStartTime, sourcesRef, isAISpeaking, pending,
                   nmsgs, clips, stopped, endedFired, epoch,
                   endedSignals, transitions>>
    /\ UNCHANGED <<txVars, sessVars, fnVars>>

LiveNext == Next \/ PlayTick

\* The clock of the context advances, every decodeAudioData settles and
\* every 'ended' event of a stopped or finished source is dispatched; a
\* message may never arrive.
SpecLive ==
    /\ Init
    /\ [][LiveNext]_vars
    /\ WF_vars(Tick)
    /\ WF_vars(PlayTick)
    /\ WF_vars(\E h \in pending : DecodeResolve(h))
    /\ WF_vars(\E h \in pending : DecodeReject(h))
    /\ WF_vars(\E id \in Started : Ended(id))

\* C30: speaking eventually ends. Once no further frame arrives, the system
\* reaches and stays in a state with an empty active set and the speaking
\* state false, also after a failed decode and after an interrupt that ran
\* while a decode was pending.
C30_SpeakingEnds ==
    <>[](sourcesRef = {} /\ ~isAISpeaking)
====
